---- MODULE Spec2Model ----
(***************************************************************************)
(* The aggregation-and-upsert pipeline of transform.py: raw readings of   *)
(* sensor_data (TimescaleDB) are grouped per (building, day) and upserted  *)
(* into analytics_data (PostgreSQL).  Several invocations of main() may    *)
(* run concurrently against the two shared stores.                         *)
(*                                                                         *)
(* summary is the committed content of analytics_data.  conn_pg is not in  *)
(* autocommit mode: the tuples an invocation writes stay in txn until      *)
(* conn_pg.commit() and are discarded when the connection is closed        *)
(* without it.  execute_values sends the rows in pages of page_size        *)
(* tuples, all inside that one transaction; the unit of interleaving is    *)
(* the tuple, at which the statement waits for a conflicting uncommitted   *)
(* tuple of another transaction (READ COMMITTED).                          *)
(*                                                                         *)
(* snapshot, summary0, startLen, ended0, failedAt and log are history      *)
(* variables: they record what an invocation read and when, and are read   *)
(* by the properties only.                                                 *)
(*                                                                         *)
(* Spec is the pipeline.  SpecMerge applies upsert_analytics, as a         *)
(* function of the table, the candidate list and the page size, to         *)
(* enumerated inputs.  SpecApi is the query service of api.py: one         *)
(* request at a time against a configured API_KEY.  Each specification     *)
(* leaves the variables of the other two at their initial values.          *)
(***************************************************************************)
EXTENDS Integers, Sequences, FiniteSets, Bags, TLC

(* ------------------------------ bounds -------------------------------- *)
\* number of invocations of main() in one behaviour
NumRuns == 2
\* number of readings the producer inserts into sensor_data
MaxReadings == 2
\* calendar days on which readings are produced
NumDays == 2
\* representable instants per calendar day: tick 0 is 00:00:00.000000 and
\* tick TicksPerDay-1 is 23:59:59.999999, the last instant of the day
TicksPerDay == 2
\* longest candidate list handed to upsert_analytics in SpecMerge
MaxCands == 3
\* largest page_size tried in SpecMerge
MaxPage == 3

(* ------------------------------ time ---------------------------------- *)
\* Python None for an Optional[datetime]
None == -1
\* parse_date's sys.exit(1)
Invalid == -2

Runs == 1..NumRuns
Days == 0..(NumDays - 1)
\* a datetime is day * TicksPerDay + tick
Timestamps == 0..(NumDays * TicksPerDay - 1)

\* DATE_TRUNC('day', timestamp)::date
DateOf(ts) == ts \div TicksPerDay
\* datetime.fromisoformat("YYYY-MM-DD"): midnight of that day
Midnight(day) == day * TicksPerDay
\* max_dt.replace(hour=23, minute=59, second=59, microsecond=999999)
EndOfDay(ts) == DateOf(ts) * TicksPerDay + (TicksPerDay - 1)

(* ------------------------------ readings ------------------------------ *)
Buildings == <<"Building A", "Building B">>
BuildingSet == {Buildings[i] : i \in 1..Len(Buildings)}
\* collation order of the building names (ORDER BY building)
BuildingOrd(b) == CHOOSE i \in 1..Len(Buildings) : Buildings[i] = b

\* (temperature, humidity, occupancy) of the reading the producer inserts for
\* an instant: an unoccupied reading at midnight, an occupied one later
Measurements(ts) ==
  IF ts % TicksPerDay = 0 THEN <<20, 40, 0>> ELSE <<23, 46, 3>>

\* the readings the producer may insert, each any number of times
Readings ==
  {[building |-> b, timestamp |-> ts, temperature |-> Measurements(ts)[1],
    humidity |-> Measurements(ts)[2], occupancy |-> Measurements(ts)[3]] :
      b \in BuildingSet, ts \in Timestamps}

(* --------------------------- rational values -------------------------- *)
RECURSIVE GCD(_, _)
GCD(a, b) == IF b = 0 THEN a ELSE GCD(b, a % b)

\* the value n/d of an SQL AVG, kept exact as a reduced fraction
Frac(n, d) == LET g == GCD(n, d) IN <<n \div g, d \div g>>

(* ------------------------- Aggregation Engine ------------------------- *)
\* a filter whose upper bound is inclusive
InWindow_inclusive(rd, start, end) ==
  /\ (start # None => rd.timestamp >= start)
  /\ (end # None => rd.timestamp <= end)

\* WHERE 1=1 [AND timestamp >= start] [AND timestamp < end]
InWindow(rd, start, end) ==
  /\ (start # None => rd.timestamp >= start)
  /\ (end # None => rd.timestamp < end)

\* SELECT min(timestamp), max(timestamp) FROM sensor_data
SetMin(S) == CHOOSE x \in S : \A y \in S : x <= y
SetMax(S) == CHOOSE x \in S : \A y \in S : y <= x
\* bounds that default to the epoch when the table is empty
fetch_date_bounds_default(store) ==
  IF BagToSet(store) = {} THEN <<0, 0>>
  ELSE LET T == {rd.timestamp : rd \in BagToSet(store)}
       IN <<SetMin(T), SetMax(T)>>

fetch_date_bounds(store) ==
  IF BagToSet(store) = {} THEN <<None, None>>
  ELSE LET T == {rd.timestamp : rd \in BagToSet(store)}
       IN <<SetMin(T), SetMax(T)>>

\* sum of a column over the rows of a group, each copy counted
RECURSIVE BagSum(_, _, _)
BagSum(store, S, col) ==
  IF S = {} THEN 0
  ELSE LET e == CHOOSE x \in S : TRUE
       IN store[e] * e[col] + BagSum(store, S \ {e}, col)

RECURSIVE BagCount(_, _)
BagCount(store, S) ==
  IF S = {} THEN 0
  ELSE LET e == CHOOSE x \in S : TRUE
       IN store[e] + BagCount(store, S \ {e})

\* the distinct readings the WHERE clause keeps
Filtered(store, start, end) ==
  {rd \in BagToSet(store) : InWindow(rd, start, end)}

\* GROUP BY building, DATE_TRUNC('day', timestamp)::date
GroupKey(rd) == <<rd.building, DateOf(rd.timestamp)>>
\* a grouping that ignores the day
GroupOf_building(S, key) == {rd \in S : rd.building = key[1]}

GroupOf(S, key) == {rd \in S : GroupKey(rd) = key}

\* a rate taken as AVG(occupancy)
AggregateRow_meanOccupancy(store, G, key) ==
  LET n == BagCount(store, G)
  IN [building |-> key[1], date |-> key[2],
      avg_temperature |-> Frac(BagSum(store, G, "temperature"), n),
      avg_humidity |-> Frac(BagSum(store, G, "humidity"), n),
      occupancy_rate |-> Frac(BagSum(store, G, "occupancy"), n)]

\* one output row of the grouped query
AggregateRow(store, G, key) ==
  LET n == BagCount(store, G)
  IN [building |-> key[1], date |-> key[2],
      avg_temperature |-> Frac(BagSum(store, G, "temperature"), n),
      avg_humidity |-> Frac(BagSum(store, G, "humidity"), n),
      occupancy_rate |-> Frac(BagCount(store, {rd \in G : rd.occupancy > 0}), n)]

\* ORDER BY building, date
KeyLeq(k1, k2) ==
  \/ BuildingOrd(k1[1]) < BuildingOrd(k2[1])
  \/ (k1[1] = k2[1] /\ k1[2] <= k2[2])

RECURSIVE SortKeys(_)
SortKeys(K) ==
  IF K = {} THEN <<>>
  ELSE LET m == CHOOSE k \in K : \A j \in K : KeyLeq(k, j)
       IN <<m>> \o SortKeys(K \ {m})

compute_daily_aggregates(store, start, end) ==
  LET S == Filtered(store, start, end)
      keys == SortKeys({GroupKey(rd) : rd \in S})
  IN [i \in 1..Len(keys) |-> AggregateRow(store, GroupOf(S, keys[i]), keys[i])]

(* --------------------------- Upsert Merger ---------------------------- *)
RowKey(row) == <<row.building, row.date>>
\* a conflict target of (building) alone
Matching_building(table, row) ==
  {x \in BagToSet(table) : x.building = row.building}

Matching(table, row) == {x \in BagToSet(table) : RowKey(x) = RowKey(row)}

\* an INSERT that never finds a conflicting row
ConflictAction_blind(table, row) == "insert"

\* a plain INSERT under the unique index, without ON CONFLICT
ConflictAction_plain(table, row) ==
  IF Matching(table, row) # {} THEN "error" ELSE "insert"

\* the arbiter of INSERT ... ON CONFLICT (building, date) DO UPDATE
ConflictAction(table, row) ==
  IF Matching(table, row) # {} THEN "update" ELSE "insert"

\* a SET list that leaves occupancy_rate out
UpdateSet_partial(old, excluded) ==
  [old EXCEPT !.avg_temperature = excluded.avg_temperature,
              !.avg_humidity = excluded.avg_humidity]

\* DO UPDATE SET avg_temperature = EXCLUDED.avg_temperature, ...
UpdateSet(old, excluded) ==
  [old EXCEPT !.avg_temperature = excluded.avg_temperature,
              !.avg_humidity = excluded.avg_humidity,
              !.occupancy_rate = excluded.occupancy_rate]

\* a tuple appended whatever the table holds
UpsertRow_append(table, row) == table (+) SetToBag({row})

\* the effect of one VALUES tuple of the statement on the table
UpsertRow(table, row) ==
  LET act == ConflictAction(table, row)
      M == Matching(table, row)
      kept == BagToSet(table) \ M
      upd == {UpdateSet(x, row) : x \in M}
  IN CASE act = "insert" -> table (+) SetToBag({row})
       [] act = "update" ->
            [y \in kept \cup upd |->
               IF y \in upd THEN BagCount(table, {x \in M : UpdateSet(x, row) = y})
               ELSE table[y]]
       [] OTHER -> table

\* a merge that replaces the table by the tuples written
MergeAll_replace(table, rows) == SetToBag({rows[i] : i \in 1..Len(rows)})

\* a merge that first deletes the rows of the candidates' buildings
MergeAll_reload(table, rows) ==
  LET B == {rows[i].building : i \in 1..Len(rows)}
      kept == {x \in BagToSet(table) : x.building \notin B}
  IN [x \in kept |-> table[x]] (+) SetToBag({rows[i] : i \in 1..Len(rows)})

\* the effect of all tuples written by one transaction, in order
RECURSIVE MergeAll(_, _)
MergeAll(table, rows) ==
  IF rows = <<>> THEN table
  ELSE MergeAll(UpsertRow(table, Head(rows)), Tail(rows))

\* a close that commits the tuples written so far
Rollback_commit(table, written) ==
  LET W == {written[i] : i \in 1..Len(written)}
  IN SetToBag(W) (+)
     [x \in {y \in BagToSet(table) :
               \A w \in W : <<w.building, w.date>> # <<y.building, y.date>>}
        |-> table[x]]

\* conn_pg.close() without commit: the tuples written are discarded
Rollback(table, written) == table

KeysOf(rows) == {RowKey(rows[i]) : i \in 1..Len(rows)}

\* the outcome of a statement or of a whole merge, with the table it leaves
Ok(table) == [state |-> "ok", table |-> table]
Error(table) == [state |-> "error", table |-> table]
Pending == [state |-> "pending", table |-> EmptyBag]

\* a pagination that sends the first page only
Pages_truncated(rows, page_size) ==
  IF rows = <<>> THEN <<>>
  ELSE IF Len(rows) <= page_size THEN <<rows>>
  ELSE <<SubSeq(rows, 1, page_size)>>

\* execute_values cuts the argument list into pages of page_size tuples
RECURSIVE Pages(_, _)
Pages(rows, page_size) ==
  IF rows = <<>> THEN <<>>
  ELSE IF Len(rows) <= page_size THEN <<rows>>
  ELSE <<SubSeq(rows, 1, page_size)>>
       \o Pages(SubSeq(rows, page_size + 1, Len(rows)), page_size)

\* one INSERT ... VALUES <page> ON CONFLICT (building, date) DO UPDATE.  The
\* server rejects a statement with two tuples of one key (it would update a
\* row a second time); otherwise every tuple is inserted or overwrites.
Statement(table, page) ==
  IF \E i \in 1..Len(page), j \in 1..Len(page) :
       i # j /\ RowKey(page[i]) = RowKey(page[j])
  THEN Error(table)
  ELSE Ok(MergeAll(table, page))

\* the statements of the pages, in order, in the open transaction
RECURSIVE RunPages(_, _)
RunPages(table, pages) ==
  IF pages = <<>> THEN Ok(table)
  ELSE LET res == Statement(table, Head(pages))
       IN IF res.state = "error" THEN res
          ELSE RunPages(res.table, Tail(pages))

execute_values(table, rows, page_size) == RunPages(table, Pages(rows, page_size))

\* upsert_analytics as a function of the table: commit when every statement
\* succeeded, and the table as it was when one raised
upsert_analytics(table, rows, page_size) ==
  IF rows = <<>> THEN Ok(table)
  ELSE LET res == execute_values(table, rows, page_size)
       IN IF res.state = "ok" THEN res ELSE Error(Rollback(table, rows))

(* ------------------------- inputs of SpecMerge ------------------------ *)
PageSizes == 1..MaxPage

\* the candidate rows tried: two different summaries for each day of the
\* first building
MergeRows ==
  {[building |-> Buildings[1], date |-> d,
    avg_temperature |-> Frac(Measurements(t)[1], 1),
    avg_humidity |-> Frac(Measurements(t)[2], 1),
    occupancy_rate |-> Frac(t, 1)] : d \in Days, t \in {0, 1}}

\* the candidate lists tried: every list of at most MaxCands rows, lists
\* with several rows of one key included
CandSeqs == UNION {[1..n -> MergeRows] : n \in 0..MaxCands}

\* the tables tried: those the unique index admits
MergeTables ==
  {SetToBag(S) : S \in {X \in SUBSET MergeRows :
                          \A x \in X, y \in X : RowKey(x) = RowKey(y) => x = y}}

(* ------------------------- command-line inputs ------------------------ *)
\* a --start-date / --end-date value: absent, empty, YYYY-MM-DD, full ISO
\* timestamp, or a string datetime.fromisoformat rejects
NoArg == [kind |-> "none", val |-> 0]
EmptyArg == [kind |-> "empty", val |-> 0]
BadArg == [kind |-> "bad", val |-> 0]
DateArg(d) == [kind |-> "date", val |-> d]
IsoArg(ts) == [kind |-> "iso", val |-> ts]

\* the values tried for --start-date: the first day
StartArgs == {NoArg, EmptyArg, BadArg, DateArg(0)}
\* the values tried for --end-date: the last instant of the first day, and
\* the day after the last day
EndArgs == {NoArg, EmptyArg, BadArg, IsoArg(EndOfDay(0)), DateArg(NumDays)}

parse_date(arg) ==
  CASE arg.kind \in {"none", "empty"} -> None
    [] arg.kind = "date" -> Midnight(arg.val)
    [] arg.kind = "iso" -> arg.val
    [] OTHER -> Invalid

(* ------------------------- requests of SpecApi ------------------------ *)
\* the values of API_KEY tried: unset to empty, the default, another one
Secrets == {"", "supersecretkey123", "rotated"}

\* the X-API-Key header of a request: absent, or present with a value
Headers ==
  {[present |-> FALSE, value |-> ""]}
  \cup {[present |-> TRUE, value |-> v] : v \in Secrets}

\* the start / start_date query parameter: absent, a date, not a date
DateParams == {NoArg, DateArg(0), BadArg}

\* the limit query parameter: the default, and one below ge=1
Limits == {500, 0}

(* ------------------------------- state -------------------------------- *)
VARIABLES
  raw,        \* sensor_data: bag of readings
  summary,    \* analytics_data: bag of committed rows
  hasIndex,   \* analytics_building_date_uidx exists
  pc,         \* position of each invocation of main()
  argv,       \* args.start_date and args.end_date as given, while main reads them
  args,       \* parsed (--start-date, --end-date) of each invocation
  start_dt,   \* main's start_dt
  end_dt,     \* main's end_dt
  rows,       \* main's rows: the candidates returned by the aggregation
  txn,        \* tuples written on conn_pg and not yet committed
  err,        \* why the invocation ended, "none" while it has not failed
  failedAt,   \* the position at which the invocation failed
  snapshot,   \* the sensor_data contents the aggregation query read
  summary0,   \* analytics_data when the invocation started
  startLen,   \* number of commits when the invocation started
  ended0,     \* the invocations that had ended when the invocation started
  log,        \* the invocations whose merge committed, in commit order
  table0,     \* SpecMerge: analytics_data before the merge
  cands,      \* SpecMerge: the rows argument of upsert_analytics
  merged,     \* SpecMerge: the outcome of the merge for each page size
  API_KEY,    \* SpecApi: the configured secret
  request,    \* SpecApi: the last request received
  response    \* SpecApi: the response to it

pipelineVars == <<raw, summary, hasIndex, pc, argv, args, start_dt, end_dt, rows,
                  txn, err, failedAt, snapshot, summary0, startLen, ended0, log>>
mergerVars == <<table0, cands, merged>>
apiVars == <<API_KEY, request, response>>

vars == <<pipelineVars, mergerVars, apiVars>>

runVars == <<pc, argv, args, start_dt, end_dt, rows, txn, err, failedAt, snapshot,
             summary0, startLen, ended0>>

\* SpecMerge and SpecApi at rest
MergerIdle ==
  /\ table0 = EmptyBag
  /\ cands = <<>>
  /\ merged = [p \in PageSizes |-> Pending]

NoRequest ==
  [endpoint |-> "", x_api_key |-> [present |-> FALSE, value |-> ""],
   date |-> NoArg, limit |-> 500]
NoResponse == [status |-> 0, stores |-> {}]

ApiIdle ==
  /\ API_KEY = "supersecretkey123"
  /\ request = NoRequest
  /\ response = NoResponse

PipelineInit ==
  /\ raw = EmptyBag
  /\ summary = EmptyBag
  /\ hasIndex = FALSE
  /\ pc = [r \in Runs |-> "init"]
  /\ argv = [r \in Runs |-> <<NoArg, NoArg>>]
  /\ args = [r \in Runs |-> <<None, None>>]
  /\ start_dt = [r \in Runs |-> None]
  /\ end_dt = [r \in Runs |-> None]
  /\ rows = [r \in Runs |-> <<>>]
  /\ txn = [r \in Runs |-> <<>>]
  /\ err = [r \in Runs |-> "none"]
  /\ failedAt = [r \in Runs |-> "none"]
  /\ snapshot = [r \in Runs |-> EmptyBag]
  /\ summary0 = [r \in Runs |-> EmptyBag]
  /\ startLen = [r \in Runs |-> 0]
  /\ ended0 = [r \in Runs |-> {}]
  /\ log = <<>>

Init == PipelineInit /\ MergerIdle /\ ApiIdle

(* ------------------------------ producer ------------------------------ *)
\* the external producer appends one reading to sensor_data
Produce(rd) ==
  /\ UNCHANGED <<mergerVars, apiVars>>
  /\ BagCardinality(raw) < MaxReadings
  /\ raw' = raw (+) SetToBag({rd})
  /\ UNCHANGED <<summary, hasIndex, log>>
  /\ UNCHANGED runVars

(* ------------------------------- main() ------------------------------- *)
\* the exception path of main: the finally block closes conn_pg, which
\* discards the tuples written and not committed, and the process exits
Fail(r, kind) ==
  /\ pc' = [pc EXCEPT ![r] = "failed"]
  /\ err' = [err EXCEPT ![r] = kind]
  /\ failedAt' = [failedAt EXCEPT ![r] = pc[r]]
  /\ summary' = Rollback(summary, txn[r])
  /\ txn' = [txn EXCEPT ![r] = <<>>]
  /\ start_dt' = [start_dt EXCEPT ![r] = None]
  /\ end_dt' = [end_dt EXCEPT ![r] = None]
  /\ rows' = [rows EXCEPT ![r] = <<>>]
  /\ snapshot' = [snapshot EXCEPT ![r] = EmptyBag]

\* parse_args and the two parse_date calls; invocations are numbered in the
\* order they start
Start(r, sa, ea) ==
  /\ UNCHANGED <<mergerVars, apiVars>>
  /\ pc[r] = "init"
  /\ (r > 1 => pc[r - 1] # "init")
  /\ argv' = [argv EXCEPT ![r] = <<sa, ea>>]
  /\ summary0' = [summary0 EXCEPT ![r] = summary]
  /\ startLen' = [startLen EXCEPT ![r] = Len(log)]
  /\ ended0' = [ended0 EXCEPT ![r] = {q \in Runs : pc[q] \in {"done", "failed"}}]
  /\ IF parse_date(sa) = Invalid \/ parse_date(ea) = Invalid
     THEN /\ Fail(r, "InvalidDateFormat")
          /\ UNCHANGED args
     ELSE /\ pc' = [pc EXCEPT ![r] = "connect"]
          /\ args' = [args EXCEPT ![r] = <<parse_date(sa), parse_date(ea)>>]
          /\ start_dt' = [start_dt EXCEPT ![r] = parse_date(sa)]
          /\ end_dt' = [end_dt EXCEPT ![r] = parse_date(ea)]
          /\ UNCHANGED <<summary, err, failedAt, txn, rows, snapshot>>
  /\ UNCHANGED <<raw, hasIndex, log>>

\* conn_ts = get_timescale_conn(); conn_pg = get_pg_conn().  args is not read
\* after the parse_date calls.
Connect(r) ==
  /\ UNCHANGED <<mergerVars, apiVars>>
  /\ pc[r] = "connect"
  /\ pc' = [pc EXCEPT ![r] = "resolve"]
  /\ argv' = [argv EXCEPT ![r] = <<NoArg, NoArg>>]
  /\ UNCHANGED <<raw, summary, hasIndex, log, args, start_dt, end_dt, rows,
                 txn, err, failedAt, snapshot, summary0, startLen, ended0>>

\* a resolver that replaces both bounds once either is missing
Resolve_redetect(r) ==
  /\ UNCHANGED <<mergerVars, apiVars>>
  /\ pc[r] = "resolve"
  /\ IF start_dt[r] = None \/ end_dt[r] = None
     THEN LET b == fetch_date_bounds(raw)
          IN IF b[1] = None \/ b[2] = None
             THEN Fail(r, "NoDataAvailable")
             ELSE /\ start_dt' = [start_dt EXCEPT ![r] = b[1]]
                  /\ end_dt' = [end_dt EXCEPT ![r] = EndOfDay(b[2])]
                  /\ pc' = [pc EXCEPT ![r] = "aggregate"]
                  /\ UNCHANGED <<summary, err, failedAt, txn, rows, snapshot>>
     ELSE /\ pc' = [pc EXCEPT ![r] = "aggregate"]
          /\ UNCHANGED <<summary, start_dt, end_dt, err, failedAt, txn, rows,
                         snapshot>>
  /\ UNCHANGED <<raw, hasIndex, log, argv, args, summary0, startLen, ended0>>

\* if not start_dt or not end_dt: auto-detect the missing bounds
Resolve(r) ==
  /\ UNCHANGED <<mergerVars, apiVars>>
  /\ pc[r] = "resolve"
  /\ IF start_dt[r] = None \/ end_dt[r] = None
     THEN LET b == fetch_date_bounds(raw)
          IN IF b[1] = None \/ b[2] = None
             THEN Fail(r, "NoDataAvailable")
             ELSE /\ start_dt' = [start_dt EXCEPT ![r] =
                        IF start_dt[r] # None THEN start_dt[r] ELSE b[1]]
                  /\ end_dt' = [end_dt EXCEPT ![r] =
                        IF end_dt[r] # None THEN end_dt[r] ELSE EndOfDay(b[2])]
                  /\ pc' = [pc EXCEPT ![r] = "aggregate"]
                  /\ UNCHANGED <<summary, err, failedAt, txn, rows, snapshot>>
     ELSE /\ pc' = [pc EXCEPT ![r] = "aggregate"]
          /\ UNCHANGED <<summary, start_dt, end_dt, err, failedAt, txn, rows,
                         snapshot>>
  /\ UNCHANGED <<raw, hasIndex, log, argv, args, summary0, startLen, ended0>>

\* rows = compute_daily_aggregates(conn_ts, start_dt, end_dt)
Aggregate(r) ==
  /\ UNCHANGED <<mergerVars, apiVars>>
  /\ pc[r] = "aggregate"
  /\ rows' = [rows EXCEPT ![r] = compute_daily_aggregates(raw, start_dt[r], end_dt[r])]
  /\ snapshot' = [snapshot EXCEPT ![r] = raw]
  /\ pc' = [pc EXCEPT ![r] = "upsert"]
  /\ UNCHANGED <<raw, summary, hasIndex, log, argv, args, start_dt, end_dt,
                 txn, err, failedAt, summary0, startLen, ended0>>

\* an upsert that rejects an empty list
UpsertNothing_error(r) ==
  /\ UNCHANGED <<mergerVars, apiVars>>
  /\ pc[r] = "upsert"
  /\ rows[r] = <<>>
  /\ Fail(r, "EmptyInput")
  /\ UNCHANGED <<raw, hasIndex, log, argv, args, summary0, startLen, ended0>>

\* upsert_analytics with no rows: log and return; main then closes
UpsertNothing(r) ==
  /\ UNCHANGED <<mergerVars, apiVars>>
  /\ pc[r] = "upsert"
  /\ rows[r] = <<>>
  /\ pc' = [pc EXCEPT ![r] = "done"]
  /\ UNCHANGED <<raw, summary, hasIndex, log, argv, args, start_dt, end_dt,
                 rows, txn, err, failedAt, snapshot, summary0, startLen, ended0>>

\* the keys of tuples other invocations wrote and have not committed
LockedByOthers(r) == UNION {KeysOf(txn[q]) : q \in Runs \ {r}}

\* an upsert that goes on to the INSERT without creating the index
EnsureIndex_skipped(r) ==
  /\ UNCHANGED <<mergerVars, apiVars>>
  /\ pc[r] = "upsert"
  /\ rows[r] # <<>>
  /\ pc' = [pc EXCEPT ![r] = "insert"]
  /\ UNCHANGED <<raw, summary, hasIndex, log, argv, args, start_dt, end_dt,
                 rows, txn, err, failedAt, snapshot, summary0, startLen, ended0>>

\* CREATE UNIQUE INDEX IF NOT EXISTS ... ; commit.  The statement waits for
\* the transactions that wrote to the table; it fails on duplicate keys, and
\* when the server refuses it (the role may not create the index, or the
\* statement is cancelled).
EnsureIndex(r) ==
  /\ UNCHANGED <<mergerVars, apiVars>>
  /\ pc[r] = "upsert"
  /\ rows[r] # <<>>
  /\ LockedByOthers(r) = {}
  /\ \E accepted \in BOOLEAN :
     IF accepted /\ (hasIndex \/ \A x \in BagToSet(summary) :
                                   summary[x] = 1 /\ Matching(summary, x) = {x})
     THEN /\ hasIndex' = TRUE
          /\ pc' = [pc EXCEPT ![r] = "insert"]
          /\ UNCHANGED <<summary, err, failedAt, txn, start_dt, end_dt, rows,
                         snapshot>>
     ELSE /\ Fail(r, "ConstraintSetupFailure")
          /\ UNCHANGED hasIndex
  /\ UNCHANGED <<raw, log, argv, args, summary0, startLen, ended0>>

\* a connection in autocommit mode: each tuple is visible once written
InsertRow_autocommit(r) ==
  /\ UNCHANGED <<mergerVars, apiVars>>
  /\ pc[r] = "insert"
  /\ Len(txn[r]) < Len(rows[r])
  /\ LET row == rows[r][Len(txn[r]) + 1]
     IN /\ RowKey(row) \notin LockedByOthers(r)
        /\ txn' = [txn EXCEPT ![r] = Append(@, row)]
        /\ summary' = UpsertRow(summary, row)
  /\ UNCHANGED <<raw, hasIndex, log, pc, argv, args, start_dt, end_dt, rows,
                 err, failedAt, snapshot, summary0, startLen, ended0>>

\* execute_values: the next VALUES tuple of the INSERT ... ON CONFLICT; it
\* waits while another transaction holds an uncommitted tuple of that key
InsertRow(r) ==
  /\ UNCHANGED <<mergerVars, apiVars>>
  /\ pc[r] = "insert"
  /\ Len(txn[r]) < Len(rows[r])
  /\ LET row == rows[r][Len(txn[r]) + 1]
     IN /\ RowKey(row) \notin LockedByOthers(r)
        /\ IF ConflictAction(summary, row) \in {"insert", "update"}
           THEN /\ txn' = [txn EXCEPT ![r] = Append(@, row)]
                /\ UNCHANGED <<summary, pc, err, failedAt, start_dt, end_dt,
                               rows, snapshot>>
           ELSE Fail(r, "UniqueViolation")
  /\ UNCHANGED <<raw, hasIndex, log, argv, args, summary0, startLen, ended0>>

\* conn_pg.commit(), then the finally block
Commit(r) ==
  /\ UNCHANGED <<mergerVars, apiVars>>
  /\ pc[r] = "insert"
  /\ Len(txn[r]) = Len(rows[r])
  /\ summary' = MergeAll(summary, txn[r])
  /\ txn' = [txn EXCEPT ![r] = <<>>]
  /\ log' = Append(log, r)
  /\ pc' = [pc EXCEPT ![r] = "done"]
  /\ UNCHANGED <<raw, hasIndex, argv, args, start_dt, end_dt, rows, err,
                 failedAt, snapshot, summary0, startLen, ended0>>

\* a store connection cannot be opened or drops at any later stage;
\* upsert_analytics with no rows uses no connection
ConnDrop(r) ==
  /\ UNCHANGED <<mergerVars, apiVars>>
  /\ pc[r] \in {"resolve", "aggregate", "upsert", "insert"}
  /\ (pc[r] = "upsert" => rows[r] # <<>>)
  /\ Fail(r, "StoreConnectionError")
  /\ UNCHANGED <<raw, hasIndex, log, argv, args, summary0, startLen, ended0>>

Next ==
  \/ \E rd \in Readings : Produce(rd)
  \/ \E r \in Runs : \E sa \in StartArgs, ea \in EndArgs : Start(r, sa, ea)
  \/ \E r \in Runs : Connect(r)
  \/ \E r \in Runs : Resolve(r)
  \/ \E r \in Runs : Aggregate(r)
  \/ \E r \in Runs : UpsertNothing(r)
  \/ \E r \in Runs : EnsureIndex(r)
  \/ \E r \in Runs : InsertRow(r)
  \/ \E r \in Runs : Commit(r)
  \/ \E r \in Runs : ConnDrop(r)

Spec == Init /\ [][Next]_vars

(* ----------------------- upsert_analytics alone ----------------------- *)
InitMerge ==
  /\ PipelineInit
  /\ ApiIdle
  /\ table0 \in MergeTables
  /\ cands \in CandSeqs
  /\ merged = [p \in PageSizes |-> Pending]

\* upsert_analytics(conn_pg, rows) run on table0 with page_size = p
Merge(p) ==
  /\ merged[p].state = "pending"
  /\ merged' = [merged EXCEPT ![p] = upsert_analytics(table0, cands, p)]
  /\ UNCHANGED <<table0, cands, pipelineVars, apiVars>>

NextMerge == \E p \in PageSizes : Merge(p)

SpecMerge == InitMerge /\ [][NextMerge]_vars

(* --------------------------- query service ---------------------------- *)
InitApi ==
  /\ PipelineInit
  /\ MergerIdle
  /\ API_KEY \in Secrets
  /\ request = NoRequest
  /\ response = NoResponse

\* a check that only asks for the header to be there
require_api_key_present(x_api_key) ==
  IF API_KEY # "" /\ ~x_api_key.present THEN 401 ELSE 200

\* if API_KEY and (x_api_key != API_KEY): raise HTTPException(401)
require_api_key(x_api_key) ==
  IF API_KEY # "" /\ (~x_api_key.present \/ x_api_key.value # API_KEY)
  THEN 401 ELSE 200

\* parse_dt(start) if start else None: 400 for a string that is no date
parse_dt(d) == IF d.kind = "bad" THEN 400 ELSE 200

\* Query(ge=1, le=10000): the framework answers 422 before the handler runs
ValidLimit(limit) == 1 <= limit /\ limit <= 10000

\* status, and the stores the handler connected to
Reply(status, stores) == [status |-> status, stores |-> stores]

Request(ep, x_api_key, d, limit) ==
  [endpoint |-> ep, x_api_key |-> x_api_key, date |-> d, limit |-> limit]

\* GET /health: no X-API-Key parameter; connects to both stores
health(x_api_key, d, limit) ==
  /\ request' = Request("/health", x_api_key, d, limit)
  /\ \E up \in BOOLEAN :
       response' = IF up THEN Reply(200, {"timescaledb", "postgres"})
                   ELSE Reply(500, {})
  /\ UNCHANGED <<API_KEY, pipelineVars, mergerVars>>

\* GET /buildings
list_buildings(x_api_key, d, limit) ==
  /\ request' = Request("/buildings", x_api_key, d, limit)
  /\ \E up \in BOOLEAN :
       response' = IF require_api_key(x_api_key) = 401 THEN Reply(401, {})
                   ELSE IF up THEN Reply(200, {"timescaledb"})
                   ELSE Reply(500, {})
  /\ UNCHANGED <<API_KEY, pipelineVars, mergerVars>>

\* GET /raw-stats
raw_stats(x_api_key, d, limit) ==
  /\ request' = Request("/raw-stats", x_api_key, d, limit)
  /\ \E up \in BOOLEAN :
       response' = IF require_api_key(x_api_key) = 401 THEN Reply(401, {})
                   ELSE IF up THEN Reply(200, {"timescaledb"})
                   ELSE Reply(500, {})
  /\ UNCHANGED <<API_KEY, pipelineVars, mergerVars>>

\* GET /raw-data
get_raw_data(x_api_key, d, limit) ==
  /\ request' = Request("/raw-data", x_api_key, d, limit)
  /\ \E up \in BOOLEAN :
       response' = IF ~ValidLimit(limit) THEN Reply(422, {})
                   ELSE IF require_api_key(x_api_key) = 401 THEN Reply(401, {})
                   ELSE IF parse_dt(d) = 400 THEN Reply(400, {})
                   ELSE IF up THEN Reply(200, {"timescaledb"})
                   ELSE Reply(500, {})
  /\ UNCHANGED <<API_KEY, pipelineVars, mergerVars>>

\* GET /analytics
get_analytics(x_api_key, d, limit) ==
  /\ request' = Request("/analytics", x_api_key, d, limit)
  /\ \E up \in BOOLEAN :
       response' = IF ~ValidLimit(limit) THEN Reply(422, {})
                   ELSE IF require_api_key(x_api_key) = 401 THEN Reply(401, {})
                   ELSE IF parse_dt(d) = 400 THEN Reply(400, {})
                   ELSE IF up THEN Reply(200, {"postgres"})
                   ELSE Reply(500, {})
  /\ UNCHANGED <<API_KEY, pipelineVars, mergerVars>>

NextApi ==
  \/ \E x \in Headers, d \in DateParams, n \in Limits : health(x, d, n)
  \/ \E x \in Headers, d \in DateParams, n \in Limits : list_buildings(x, d, n)
  \/ \E x \in Headers, d \in DateParams, n \in Limits : raw_stats(x, d, n)
  \/ \E x \in Headers, d \in DateParams, n \in Limits : get_raw_data(x, d, n)
  \/ \E x \in Headers, d \in DateParams, n \in Limits : get_analytics(x, d, n)

SpecApi == InitApi /\ [][NextApi]_vars

TypeOK ==
  /\ \A r \in Runs : pc[r] \in {"init", "connect", "resolve", "aggregate",
                                "upsert", "insert", "done", "failed"}
  /\ Len(log) <= NumRuns

(* ------------------------------ properties ---------------------------- *)
AllKeys == BuildingSet \X Days
Last(seq) == seq[Len(seq)]
Committed(r) == \E i \in 1..Len(log) : log[i] = r
\* the committed rows of analytics_data with a given (building, date)
RowsFor(table, k) ==
  {x \in BagToSet(table) : x.building = k[1] /\ x.date = k[2]}
\* the step in which invocation r commits its merge
CommitStep(r) == pc[r] = "insert" /\ pc'[r] = "done"
Aggregated(r) == pc[r] \in {"upsert", "insert", "done"}

\* C1: analytics_data never holds two rows with the same (building, date),
\* whatever runs have executed and however two concurrent runs interleave.
Uniqueness ==
  \A x \in BagToSet(summary) :
    /\ summary[x] = 1
    /\ \A y \in BagToSet(summary) :
         (y.building = x.building /\ y.date = x.date) => y = x

\* two runs that were in flight together both committed a row of the same key
UniquenessWitness ==
  \E q \in Runs, r \in Runs :
    /\ q # r
    /\ pc[q] = "done" /\ pc[r] = "done"
    /\ Committed(q) /\ Committed(r)
    /\ startLen[q] = startLen[r]
    /\ KeysOf(rows[q]) \cap KeysOf(rows[r]) # {}

\* C2: when a run commits its merge right after a run with the same resolved
\* window that read the same sensor_data contents, analytics_data is left
\* exactly as it was: no added row and no changed value.
Idempotence ==
  [][\A r \in Runs : \A q \in Runs \ {r} :
       (/\ CommitStep(r)
        /\ pc[q] = "done" /\ log # <<>> /\ Last(log) = q
        /\ start_dt[q] = start_dt[r] /\ end_dt[q] = end_dt[r]
        /\ snapshot[q] = snapshot[r])
       => summary' = summary]_vars

\* the second of two such runs has committed
IdempotenceWitness ==
  \E q \in Runs, r \in Runs :
    /\ q # r
    /\ pc[q] = "done" /\ pc[r] = "done"
    /\ Len(log) >= 2 /\ Last(log) = r /\ log[Len(log) - 1] = q
    /\ q \in ended0[r]
    /\ start_dt[q] = start_dt[r] /\ end_dt[q] = end_dt[r]
    /\ snapshot[q] = snapshot[r]
    /\ Len(rows[r]) >= 2

\* C3: the aggregation returns exactly one candidate for each (building, day)
\* with a reading of timestamp in [start, end), and none for any other pair.
Coverage ==
  \A r \in Runs :
    Aggregated(r) =>
      /\ KeysOf(rows[r]) \subseteq AllKeys
      /\ \A k \in AllKeys :
           Cardinality({i \in 1..Len(rows[r]) :
                          rows[r][i].building = k[1] /\ rows[r][i].date = k[2]})
           = IF \E rd \in BagToSet(snapshot[r]) :
                   /\ rd.building = k[1] /\ DateOf(rd.timestamp) = k[2]
                   /\ start_dt[r] <= rd.timestamp /\ rd.timestamp < end_dt[r]
             THEN 1 ELSE 0

\* an aggregation that kept one (building, day) and left a reading out
CoverageWitness ==
  \E r \in Runs :
    /\ pc[r] = "upsert"
    /\ Len(rows[r]) = 1
    /\ \E rd \in BagToSet(snapshot[r]) : rd.timestamp >= end_dt[r]

\* C4: right after a run's merge commits, analytics_data holds exactly one
\* row for each candidate's (building, date), equal to the candidate in every
\* aggregate field, whether the key was new or held stale values.
OverwriteSemantics ==
  \A r \in Runs :
    (log # <<>> /\ Last(log) = r) =>
      \A i \in 1..Len(rows[r]) :
        LET c == rows[r][i]
            R == RowsFor(summary, <<c.building, c.date>>)
        IN /\ Cardinality(R) = 1
           /\ \A x \in R :
                /\ summary[x] = 1
                /\ x.avg_temperature = c.avg_temperature
                /\ x.avg_humidity = c.avg_humidity
                /\ x.occupancy_rate = c.occupancy_rate

\* the last merge overwrote a row an earlier run had written with other
\* values
OverwriteWitness ==
  \E q \in Runs, r \in Runs :
    /\ q # r /\ Committed(q) /\ log # <<>> /\ Last(log) = r
    /\ \E i \in 1..Len(rows[r]), j \in 1..Len(rows[q]) :
         /\ RowKey(rows[r][i]) = RowKey(rows[q][j])
         /\ rows[r][i].avg_temperature # rows[q][j].avg_temperature
         /\ rows[r][i].avg_humidity # rows[q][j].avg_humidity
         /\ rows[r][i].occupancy_rate # rows[q][j].occupancy_rate
         /\ rows[r][i] \in BagToSet(summary)

\* every instant of day d lies in [start, end)
DayInside(d, start, end) == start <= Midnight(d) /\ Midnight(d + 1) <= end

\* C5 as stated: after a run's merge commits, a row exists for a
\* (building, day) whose day lies inside the run's window if and only if the
\* run produced a candidate for it.
ReflectsExactly ==
  \A r \in Runs :
    (log # <<>> /\ Last(log) = r) =>
      \A k \in AllKeys :
        DayInside(k[2], start_dt[r], end_dt[r]) =>
          (RowsFor(summary, k) # {} <=> k \in KeysOf(rows[r]))

\* C5 amended: a merge adds a row for each of its candidates and removes
\* none: the keys after the commit are the keys before it together with the
\* candidates' keys.
MergeKeepsAndAdds ==
  [][\A r \in Runs :
       CommitStep(r) =>
         {<<x.building, x.date>> : x \in BagToSet(summary')}
         = {<<x.building, x.date>> : x \in BagToSet(summary)}
           \cup {<<rows[r][i].building, rows[r][i].date>> : i \in 1..Len(rows[r])}]_vars

\* the last merge left in place a row of a day inside its window for which
\* it had no candidate
MergeKeepsWitness ==
  \E r \in Runs :
    /\ log # <<>> /\ Last(log) = r /\ pc[r] = "done"
    /\ \E k \in AllKeys :
         /\ DayInside(k[2], start_dt[r], end_dt[r])
         /\ RowsFor(summary, k) # {}
         /\ k \notin KeysOf(rows[r])

\* C6: a merge leaves every row whose (building, date) is not among its
\* candidates present and unchanged.
FrameOutsideCandidates ==
  [][\A r \in Runs :
       CommitStep(r) =>
         \A x \in BagToSet(summary) :
           (\A i \in 1..Len(rows[r]) :
              <<rows[r][i].building, rows[r][i].date>> # <<x.building, x.date>>)
           => (x \in BagToSet(summary') /\ summary'[x] = summary[x])]_vars

\* the last merge kept an earlier run's row of the same building on
\* another day
FrameWitness ==
  \E q \in Runs, r \in Runs :
    /\ q # r /\ Committed(q) /\ log # <<>> /\ Last(log) = r
    /\ \E j \in 1..Len(rows[q]), i \in 1..Len(rows[r]) :
         /\ RowKey(rows[q][j]) \notin KeysOf(rows[r])
         /\ rows[q][j].building = rows[r][i].building
         /\ rows[q][j] \in BagToSet(summary)

\* C7 as stated: when neither bound is given and sensor_data is not empty,
\* the resolved window contains every reading, the one with the maximum
\* timestamp included.
AutoDetectInclusive ==
  [][\A r \in Runs :
       (pc[r] = "resolve" /\ pc'[r] = "aggregate" /\ args[r] = <<None, None>>)
       => \A rd \in BagToSet(raw) :
            start_dt'[r] <= rd.timestamp /\ rd.timestamp < end_dt'[r]]_vars

\* the row is the mean and rate of the readings G of the store
SummarisesGroup(row, store, G) ==
  LET n == BagCount(store, G)
  IN /\ n > 0
     /\ row.avg_temperature[2] > 0
     /\ row.avg_humidity[2] > 0
     /\ row.occupancy_rate[2] > 0
     /\ row.avg_temperature[1] * n
          = row.avg_temperature[2] * BagSum(store, G, "temperature")
     /\ row.avg_humidity[1] * n
          = row.avg_humidity[2] * BagSum(store, G, "humidity")
     /\ row.occupancy_rate[1] * n
          = row.occupancy_rate[2] * BagCount(store, {rd \in G : rd.occupancy > 0})

DayReadings(store, b, d) ==
  {rd \in BagToSet(store) : rd.building = b /\ DateOf(rd.timestamp) = d}

\* C8 as stated: every candidate is the mean and rate of all readings of its
\* building on its calendar day, whatever the window.
WholeDaySummary ==
  \A r \in Runs :
    Aggregated(r) =>
      \A i \in 1..Len(rows[r]) :
        SummarisesGroup(rows[r][i], snapshot[r],
                        DayReadings(snapshot[r], rows[r][i].building, rows[r][i].date))

\* C8 amended: every candidate is the mean and rate of the readings of its
\* building on its calendar day whose timestamp lies in [start, end).
WindowedDaySummary ==
  \A r \in Runs :
    Aggregated(r) =>
      \A i \in 1..Len(rows[r]) :
        SummarisesGroup(rows[r][i], snapshot[r],
          {rd \in DayReadings(snapshot[r], rows[r][i].building, rows[r][i].date) :
             start_dt[r] <= rd.timestamp /\ rd.timestamp < end_dt[r]})

\* a committed candidate whose day has a reading outside the window
WindowedWitness ==
  \E r \in Runs :
    /\ pc[r] = "done"
    /\ \E i \in 1..Len(rows[r]) :
         LET D == DayReadings(snapshot[r], rows[r][i].building, rows[r][i].date)
             G == {rd \in D : start_dt[r] <= rd.timestamp /\ rd.timestamp < end_dt[r]}
         IN G # D /\ rows[r][i] \in BagToSet(summary)

\* C9: no run fails on a conflict over a shared key, and every row holds, in
\* all its fields, the candidate of the run that committed last among the
\* runs that wrote its key.
LastWriterWins ==
  /\ \A r \in Runs : err[r] # "UniqueViolation"
  /\ \A k \in AllKeys :
       LET W == {i \in 1..Len(log) :
                   \E j \in 1..Len(rows[log[i]]) :
                     <<rows[log[i]][j].building, rows[log[i]][j].date>> = k}
       IN W # {} =>
            LET last == CHOOSE i \in W : \A j \in W : j <= i
            IN \E j \in 1..Len(rows[log[last]]) :
                 RowsFor(summary, k) = {rows[log[last]][j]}

\* two runs in flight together wrote different values for one key and both
\* committed
LastWriterWitness ==
  \E q \in Runs, r \in Runs :
    /\ q # r /\ pc[q] = "done" /\ pc[r] = "done"
    /\ Committed(q) /\ log # <<>> /\ Last(log) = r
    /\ startLen[q] = startLen[r]
    /\ \E i \in 1..Len(rows[r]), j \in 1..Len(rows[q]) :
         /\ RowKey(rows[r][i]) = RowKey(rows[q][j])
         /\ rows[r][i] # rows[q][j]
         /\ RowsFor(summary, RowKey(rows[r][i])) = {rows[r][i]}

\* C10: a step in which a run fails leaves analytics_data as it was; every
\* row a step brings in is a whole candidate of the run committing in that
\* step; and a run of the same arguments started after the failure, with no
\* other merge committed since the failed run started, ends with the table
\* a merge of its candidates into the table the failed run started from.
RetryConvergence ==
  [][/\ \A f \in Runs :
          (pc[f] # "failed" /\ pc'[f] = "failed") => summary' = summary
     /\ \A x \in BagToSet(summary') :
          \/ x \in BagToSet(summary)
          \/ \E r \in Runs : CommitStep(r) /\ \E i \in 1..Len(rows[r]) : x = rows[r][i]
     /\ \A f \in Runs : \A r \in Runs \ {f} :
          (/\ pc[f] = "failed" /\ f \in ended0[r]
           /\ CommitStep(r)
           /\ args[r] = args[f]
           /\ Len(log) = startLen[f])
          => summary' = MergeAll(summary0[f], rows[r])]_vars

\* a run dropped its connection during the merge and its retry committed
RetryWitness ==
  \E f \in Runs, r \in Runs :
    /\ f # r
    /\ pc[f] = "failed" /\ failedAt[f] = "insert"
    /\ err[f] = "StoreConnectionError"
    /\ f \in ended0[r] /\ pc[r] = "done"
    /\ args[r] = args[f]
    /\ Len(log) = startLen[f] + 1 /\ Last(log) = r
    /\ Len(rows[r]) >= 2
    /\ summary = MergeAll(summary0[f], rows[r])

\* C11: upsert_analytics called with no candidates returns without an error
\* and leaves analytics_data, its index and the open transaction as they
\* were.
EmptyInputNoOp ==
  [][\A r \in Runs :
       (pc[r] = "upsert" /\ rows[r] = <<>> /\ pc'[r] # "upsert")
       => /\ pc'[r] = "done" /\ err'[r] = "none"
          /\ summary' = summary /\ hasIndex' = hasIndex
          /\ txn'[r] = <<>> /\ log' = log]_vars

\* a run with no candidate ended while analytics_data held rows
EmptyInputWitness ==
  \E r \in Runs :
    /\ pc[r] = "done" /\ rows[r] = <<>> /\ ~Committed(r)
    /\ snapshot[r] # EmptyBag
    /\ summary0[r] # EmptyBag /\ summary # EmptyBag

\* the string is neither a calendar date nor a full timestamp
Unparsable(a) == a.kind \in {"bad", "empty"}

\* C12 as stated: a run given a --start-date or --end-date string that is not
\* a date or timestamp fails with InvalidDateFormat in its first step, before
\* it connects, and both stores stay as they were.
InvalidDateAborts ==
  [][\A r \in Runs :
       (/\ pc[r] = "init" /\ pc'[r] # "init"
        /\ (Unparsable(argv'[r][1]) \/ Unparsable(argv'[r][2])))
       => /\ pc'[r] = "failed" /\ err'[r] = "InvalidDateFormat"
          /\ raw' = raw /\ summary' = summary]_vars

\* C13: a run that has to detect a bound while sensor_data is empty fails in
\* the resolve step: no aggregation and no merge is executed for it and
\* analytics_data stays as it was.
NoDataAborts ==
  [][/\ \A r \in Runs :
          (/\ pc[r] = "resolve" /\ pc'[r] # "resolve"
           /\ (args[r][1] = None \/ args[r][2] = None)
           /\ raw = EmptyBag)
          => /\ pc'[r] = "failed"
             /\ err'[r] \in {"NoDataAvailable", "StoreConnectionError"}
             /\ summary' = summary /\ log' = log
     /\ \A r \in Runs :
          err'[r] = "NoDataAvailable"
          => /\ pc'[r] = "failed" /\ failedAt'[r] = "resolve"
             /\ rows'[r] = <<>> /\ snapshot'[r] = EmptyBag /\ txn'[r] = <<>>
             /\ ~(\E i \in 1..Len(log') : log'[i] = r)]_vars

\* a run given one bound only found sensor_data empty
NoDataWitness ==
  \E r \in Runs :
    /\ err[r] = "NoDataAvailable"
    /\ (args[r][1] # None \/ args[r][2] # None)

\* C14: no tuple is written, and no row exists, before the unique index on
\* (building, date) exists; a run whose index creation fails has written no
\* tuple, commits nothing and leaves analytics_data as it was.
ConstraintBeforeWrite ==
  [][/\ \A r \in Runs : (pc'[r] = "insert" \/ txn'[r] # <<>>) => hasIndex'
     /\ summary' # EmptyBag => hasIndex'
     /\ \A r \in Runs :
          (err[r] # "ConstraintSetupFailure" /\ err'[r] = "ConstraintSetupFailure")
          => /\ pc[r] = "upsert" /\ rows[r] # <<>> /\ txn[r] = <<>>
             /\ pc'[r] = "failed"
             /\ summary' = summary /\ log' = log
             /\ ~Committed(r)]_vars

\* a run with candidates failed to create the index while analytics_data
\* held rows, which are still there
ConstraintFailureWitness ==
  \E r \in Runs :
    /\ err[r] = "ConstraintSetupFailure" /\ failedAt[r] = "upsert"
    /\ snapshot[r] = EmptyBag /\ ~Committed(r)
    /\ summary0[r] # EmptyBag /\ summary = summary0[r]

\* C15: the resolve step keeps every bound that was given and replaces a
\* missing start by the minimum timestamp of sensor_data and a missing end by
\* the last instant of the day of its maximum timestamp; with a given end, a
\* reading at or after end is in no candidate.
RangeResolution ==
  [][/\ \A r \in Runs :
          (pc[r] = "resolve" /\ pc'[r] = "aggregate")
          => LET T == {rd.timestamp : rd \in BagToSet(raw)}
                 lo == CHOOSE t \in T : \A u \in T : t <= u
                 hi == CHOOSE t \in T : \A u \in T : u <= t
             IN /\ start_dt'[r] = IF args[r][1] # None THEN args[r][1] ELSE lo
                /\ end_dt'[r] = IF args[r][2] # None THEN args[r][2]
                                ELSE (hi \div TicksPerDay) * TicksPerDay
                                     + TicksPerDay - 1
     /\ \A r \in Runs :
          (pc[r] = "aggregate" /\ pc'[r] = "upsert" /\ args[r][2] # None)
          => LET lo == IF args[r][1] # None THEN args[r][1] ELSE start_dt[r]
                 In(rd) == lo <= rd.timestamp /\ rd.timestamp < args[r][2]
             IN /\ KeysOf(rows'[r])
                     = {<<rd.building, DateOf(rd.timestamp)>> :
                          rd \in {x \in BagToSet(raw) : In(x)}}
                /\ \A i \in 1..Len(rows'[r]) :
                     SummarisesGroup(rows'[r][i], raw,
                       {rd \in DayReadings(raw, rows'[r][i].building,
                                           rows'[r][i].date) : In(rd)})]_vars

\* one run was given both bounds and left out a reading at its end, another
\* was given one bound only
RangeWitness ==
  \E q \in Runs, r \in Runs :
    /\ q # r /\ Aggregated(q) /\ Aggregated(r)
    /\ args[q][1] # None /\ args[q][2] # None
    /\ start_dt[q] = args[q][1] /\ end_dt[q] = args[q][2]
    /\ rows[q] # <<>>
    /\ \E rd \in BagToSet(snapshot[q]) : rd.timestamp = end_dt[q]
    /\ (args[r][1] = None) # (args[r][2] = None)
    /\ rows[r] # <<>>

AllOrNothing ==
  [][/\ summary' # summary
          => \E r \in Runs :
               /\ CommitStep(r)
               /\ ~Committed(r) /\ log' = Append(log, r)
               /\ \A i \in 1..Len(rows[r]) :
                    /\ rows[r][i] \in BagToSet(summary')
                    /\ summary'[rows[r][i]] = 1
     /\ \A r \in Runs :
          (pc[r] = "insert" /\ pc'[r] = "failed")
          => /\ summary' = summary
             /\ (Len(log) = startLen[r] => summary' = summary0[r])
             /\ log' = log /\ ~Committed(r)]_vars

\* a run has written one of its two tuples while another run is in flight,
\* and analytics_data shows none of them
AllOrNothingWitness ==
  \E q \in Runs, r \in Runs :
    /\ q # r
    /\ pc[r] = "insert" /\ Len(txn[r]) = 1 /\ Len(rows[r]) = 2
    /\ pc[q] \in {"resolve", "aggregate", "upsert", "insert"}
    /\ \A i \in 1..Len(rows[r]) : rows[r][i] \notin BagToSet(summary)

\* the (building, date) pairs of analytics_data
StoreKeys == {<<x.building, x.date>> : x \in BagToSet(summary)}

\* C20: no step removes a (building, date) from analytics_data, and a pair
\* appears only in the step in which a run commits, and is then the pair of
\* one of that run's candidates.
KeysMonotone ==
  [][/\ StoreKeys \subseteq StoreKeys'
     /\ \A k \in StoreKeys' \ StoreKeys :
          \E r \in Runs : CommitStep(r) /\ k \in KeysOf(rows[r])]_vars

\* two runs committed disjoint days of one building, one after the other,
\* and analytics_data holds both
KeysWitness ==
  \E q \in Runs, r \in Runs :
    /\ log = <<q, r>>
    /\ rows[q] # <<>> /\ rows[r] # <<>>
    /\ KeysOf(rows[q]) \cap KeysOf(rows[r]) = {}
    /\ \E j \in 1..Len(rows[q]), i \in 1..Len(rows[r]) :
         rows[q][j].building = rows[r][i].building
    /\ StoreKeys = KeysOf(rows[q]) \cup KeysOf(rows[r])

\* C17: whenever upsert_analytics succeeds on the same table and candidate
\* list with two page sizes, it leaves the same table.
BatchIndependence ==
  \A p \in PageSizes, q \in PageSizes :
    (merged[p].state = "ok" /\ merged[q].state = "ok")
    => merged[p].table = merged[q].table

\* a list with two candidates of one key, over a table holding a third
\* value for that key: merged tuple by tuple and in pages of two it leaves
\* the same new table, and in one page the statement is rejected
BatchWitness ==
  /\ Len(cands) = 3
  /\ merged[1].state = "ok" /\ merged[2].state = "ok"
  /\ merged[MaxPage].state = "error"
  /\ merged[2].table # table0
  /\ RowKey(cands[1]) = RowKey(cands[3]) /\ cands[1] # cands[3]
  /\ \E x \in BagToSet(table0) : RowKey(x) = RowKey(cands[2]) /\ x # cands[2]

\* the request carries no X-API-Key equal to the configured secret
Unauthenticated ==
  ~request.x_api_key.present \/ request.x_api_key.value # API_KEY

\* C18 as stated: every request without the header, or with a value other
\* than the secret, is answered 401 with no store touched, at every endpoint
\* and for every configured secret.
AuthEveryEndpoint ==
  (request # NoRequest /\ Unauthenticated)
  => (response.status = 401 /\ response.stores = {})

\* C18 amended: at /buildings, /raw-stats, /raw-data and /analytics, with a
\* non-empty secret, such a request touches no store and is answered 401
\* when its query parameters pass validation, and 422 otherwise.
AuthDataEndpoints ==
  (/\ request.endpoint \in {"/buildings", "/raw-stats", "/raw-data", "/analytics"}
   /\ API_KEY # ""
   /\ Unauthenticated)
  => /\ response.stores = {}
     /\ response.status \in {401, 422}
     /\ (response.status = 422
           => /\ request.endpoint \in {"/raw-data", "/analytics"}
              /\ ~(1 <= request.limit /\ request.limit <= 10000))

\* a request with another key than the secret was answered 401 before its
\* date parameter was looked at
AuthWitness ==
  /\ request.endpoint = "/analytics"
  /\ API_KEY # ""
  /\ request.x_api_key.present /\ request.x_api_key.value # API_KEY
  /\ request.date.kind = "bad"
  /\ response.status = 401 /\ response.stores = {}

====
